---- MODULE Spec2Model ----
\* Task management backend: task lifecycle (models.py, serializers.py,
\* signals.py, views.py) and task assignment (additive assign_to_users and the
\* replace-set reconcile of TaskAssignmentCreateSerializer).
EXTENDS Integers, Sequences, FiniteSets, TLC

\* ---------------------------------------------------------------- bounds
MaxClock == 3      \* timezone.now() is read at most MaxClock times (one request at a time)
MaxLen == 2        \* longest user_ids list of a request
MaxRowId == 2      \* last row key handed out to the concurrent requests
MaxDepth == 3      \* frames of save() the interpreter allows

\* ---------------------------------------------------------------- domains
NULL == 0
UserIds == {1, 2, 3}                  \* primary keys of the stored users
RequestIds == UserIds \cup {998, 999} \* ids a request may name (998, 999: no such user)
TaskIds == {1, 2}                     \* primary keys handed out to tasks
Actors == {1, 2}                      \* the authenticated callers (request.user)
Procs == {1, 2}                       \* workers serving requests concurrently
ENGINES == {"sqlite", "postgresql"}   \* the engines settings.py configures
STATUS_CHOICES == {"pending", "in_progress", "completed", "cancelled"}
NoStatus == ""                        \* a request body without a status
StatusDefault == "pending"            \* Task.status default
TaskTypeIds == {1}                    \* primary keys handed out to task types

VARIABLES
    clock,      \* the value the next timezone.now() returns
    users,      \* primary keys of the User rows
    tasks,      \* Task rows: primary key -> [status, completed_at, task_type, name]
    rows,       \* TaskAssignment rows: [id, task, user, assigned_at, assigned_by]
    nextId,     \* next TaskAssignment primary key
    last,       \* the response of the operation that has just finished
    engine,     \* DATABASES['default']['ENGINE']
    req,        \* the assign requests in flight, one per worker
    types,      \* the TaskType rows by primary key: TRUE while stored
    auth,       \* does the request being dispatched carry valid credentials
    call        \* the task requests in flight, one per worker, statement by statement

vars == <<clock, users, tasks, rows, nextId, last, engine, req, types, auth, call>>

\* ---------------------------------------------------------------- helpers
Range(s) == {s[i] : i \in DOMAIN s}

\* all lists over S of length lo..hi
ListsOf(S, lo, hi) == UNION {[1..n -> S] : n \in lo..hi}

\* TaskAssignment.objects.filter(task=task)
TaskRows(rs, t) == {r \in rs : r.task = t}

\* task.assignees: the users joined through TaskAssignment
Assignees(rs, t) == {r.user : r \in TaskRows(rs, t)}

\* TaskAssignment.objects.filter(task=task, user_id=user_id)
PairRows(rs, t, u) == {r \in rs : r.task = t /\ r.user = u}

\* variant: the defaults of get_or_create are dropped
NewRow_NoAssigner(id, t, u, by, now) ==
    [id |-> id, task |-> t, user |-> u, assigned_at |-> now, assigned_by |-> NULL]

\* a new TaskAssignment row; assigned_at is auto_now_add
NewRow(id, t, u, by, now) ==
    [id |-> id, task |-> t, user |-> u, assigned_at |-> now, assigned_by |-> by]

\* TaskType.objects.all()
StoredTypes(tys) == {ty \in DOMAIN tys : tys[ty]}

\* no response pending
NoOp == [op |-> "none", task |-> NULL, actor |-> NULL, ids |-> <<>>, ok |-> TRUE,
         ret |-> <<>>, err |-> <<>>, ncreated |-> 0, ndeleted |-> 0,
         status |-> "", valid |-> TRUE]

\* the place of a Task row that was deleted (primary keys are not used again)
Deleted ==
    [status |-> "deleted", completed_at |-> NULL, task_type |-> NULL, name |-> ""]

\* the stored tasks
TaskExists(db, t) == t \in DOMAIN db /\ db[t] # Deleted
StoredTasks(db) == {t \in DOMAIN db : db[t] # Deleted}

\* a worker that serves no request
Idle == [pc |-> "idle", task |-> NULL, ids |-> <<>>, actor |-> NULL, i |-> 0,
         del |-> {}, ins |-> {}, res |-> "", ndel |-> 0, raced |-> FALSE]

\* ---------------------------------------------------------------- task lifecycle
\* Task.save() with the pre_save receiver task_pre_save, and Task.mark_completed.
\* Both return the stored tasks, the in-memory instance and the clock.
RECURSIVE Save(_, _, _, _)
RECURSIVE MarkCompleted(_, _, _, _)

\* a worker that serves no task request: no object is loaded
NoCall == [pc |-> "idle", op |-> "none", task |-> NULL, status |-> NoStatus,
           inst |-> Deleted, depth |-> 0, todo |-> 0, nested |-> 0]

\* variant: no pre_save receiver is connected
Save_NoHook(db, t, inst, now) ==
    [db |-> [db EXCEPT ![t] = inst], inst |-> inst, now |-> now]

MarkCompleted(db, t, inst, now) ==
    Save(db, t, [inst EXCEPT !.status = "completed", !.completed_at = now], now + 1)

Save(db, t, inst, now) ==
    LET old == db[t]
        hooked ==
            IF old.status # inst.status
               /\ inst.status = "completed" /\ inst.completed_at = NULL
            THEN MarkCompleted(db, t, inst, now)
            ELSE [db |-> db, inst |-> inst, now |-> now]
    IN  [db |-> [hooked.db EXCEPT ![t] = hooked.inst], inst |-> hooked.inst,
         now |-> hooked.now]

\* ---------------------------------------------------------------- assignment
\* variant: no unique constraint on the pair
UniqueViolation_Off(rs, t, u) == FALSE

\* unique_together = ('task', 'user'): the store refuses a second row of a pair
UniqueViolation(rs, t, u) == PairRows(rs, t, u) # {}

\* variant: update_or_create, an existing row takes the new assigned_by
GetOrCreate_Update(rs, us, t, u, by, now, nid) ==
    IF PairRows(rs, t, u) # {}
    THEN [rows |-> {IF r.task = t /\ r.user = u
                    THEN [r EXCEPT !.assigned_by = by] ELSE r : r \in rs},
          nid |-> nid, now |-> now, raised |-> FALSE,
          obj |-> [(CHOOSE r \in PairRows(rs, t, u) : TRUE)
                     EXCEPT !.assigned_by = by]]
    ELSE IF u \notin us
    THEN [rows |-> rs, nid |-> nid, now |-> now, raised |-> TRUE, obj |-> NULL]
    ELSE [rows |-> rs \cup {NewRow(nid, t, u, by, now)}, nid |-> nid + 1,
          now |-> now + 1, raised |-> FALSE, obj |-> NewRow(nid, t, u, by, now)]

\* variant: a plain create, which the unique pair refuses for an assigned user
GetOrCreate_Create(rs, us, t, u, by, now, nid) ==
    IF UniqueViolation(rs, t, u) \/ u \notin us
    THEN [rows |-> rs, nid |-> nid, now |-> now, raised |-> TRUE, obj |-> NULL]
    ELSE [rows |-> rs \cup {NewRow(nid, t, u, by, now)}, nid |-> nid + 1,
          now |-> now + 1, raised |-> FALSE, obj |-> NewRow(nid, t, u, by, now)]

\* TaskAssignment.objects.get_or_create(task, user_id, defaults={assigned_by})
\* on store rs; the user foreign key is enforced by the store. Returns the
\* rows, the next key, the clock, whether it raised, and the object it
\* returned (the stored row of the pair, or the new one).
GetOrCreate(rs, us, t, u, by, now, nid) ==
    IF PairRows(rs, t, u) # {}
    THEN [rows |-> rs, nid |-> nid, now |-> now, raised |-> FALSE,
          obj |-> CHOOSE r \in PairRows(rs, t, u) : TRUE]
    ELSE IF u \notin us
    THEN [rows |-> rs, nid |-> nid, now |-> now, raised |-> TRUE, obj |-> NULL]
    ELSE [rows |-> rs \cup {NewRow(nid, t, u, by, now)}, nid |-> nid + 1,
          now |-> now + 1, raised |-> FALSE, obj |-> NewRow(nid, t, u, by, now)]

\* the loop "for user_id in user_ids: get_or_create(...)", left at the first
\* exception; objs is the list of assignments it returns
RECURSIVE GetOrCreateAll(_, _, _, _, _, _, _)
GetOrCreateAll(rs, us, t, ids, by, now, nid) ==
    IF ids = <<>>
    THEN [rows |-> rs, nid |-> nid, now |-> now, raised |-> FALSE, objs |-> <<>>]
    ELSE LET one == GetOrCreate(rs, us, t, Head(ids), by, now, nid)
         IN  IF one.raised
             THEN [rows |-> one.rows, nid |-> one.nid, now |-> one.now,
                   raised |-> TRUE, objs |-> <<>>]
             ELSE LET rest == GetOrCreateAll(one.rows, us, t, Tail(ids), by,
                                             one.now, one.nid)
                  IN  IF rest.raised THEN rest
                      ELSE [rest EXCEPT !.objs = <<one.obj>> \o @]

\* TaskAssignmentCreateSerializer.validate_user_ids (and min_length=1)
FoundIds(us, value) == {u \in us : u \in Range(value)}

\* variant: only the first unresolved id is reported
MissingIds_First(us, value) ==
    LET missing == SelectSeq(value, LAMBDA id : id \notin FoundIds(us, value))
    IN  IF missing = << >> THEN << >> ELSE <<Head(missing)>>

MissingIds(us, value) ==
    SelectSeq(value, LAMBDA id : id \notin FoundIds(us, value))

UserIdsValid(us, value) ==
    Len(value) >= 1 /\ Cardinality(FoundIds(us, value)) = Len(value)

\* variant: every row of the task is deleted (and then created again)
DeleteNotIn_WholeTask(rs, t, ids) == {r \in rs : r.task # t}

\* variant: nothing is deleted
DeleteNotIn_Nothing(rs, t, ids) == rs

\* .filter(task=task).exclude(user_id__in=user_ids).delete(): the rows left
DeleteNotIn(rs, t, ids) == {r \in rs : ~(r.task = t /\ r.user \notin Range(ids))}

\* ---------------------------------------------------------------- init
Init ==
    /\ clock = 1
    /\ users = UserIds
    /\ tasks = << >>
    /\ rows = {}
    /\ nextId = 1
    /\ last = NoOp
    /\ engine = "sqlite"
    /\ req = [p \in Procs |-> Idle]
    /\ types = << >>
    /\ auth = TRUE
    /\ call = [p \in Procs |-> NoCall]

\* ---------------------------------------------------------------- actions
\* the response of the finished operation is returned to the caller
Respond ==
    /\ last # NoOp
    /\ last' = NoOp
    /\ UNCHANGED <<clock, users, tasks, rows, nextId, engine, req, types, auth, call>>

\* variant: validate_status accepts every status
CreateTask_AnyStatus(s) ==
    /\ last = NoOp
    /\ Len(tasks) + 1 \in TaskIds
    /\ \E ty \in StoredTypes(types) \cup {NULL} :
          tasks' = Append(tasks, [status |-> IF s = NoStatus THEN StatusDefault ELSE s,
                                  completed_at |-> NULL, task_type |-> ty,
                               name |-> "a"])
    /\ last' = [NoOp EXCEPT !.op = "create", !.task = Len(tasks) + 1, !.status = s]
    /\ UNCHANGED <<clock, users, rows, nextId, engine, req, types, auth, call>>

\* POST /tasks/ : TaskCreateSerializer, validate_status rejects 'completed'; a
\* body without status takes the default of the field. On creation the
\* instance has no pk, so task_pre_save does nothing.
CreateTask(s) ==
    /\ last = NoOp
    /\ Len(tasks) + 1 \in TaskIds
    /\ IF s = "completed"
       THEN /\ last' = [NoOp EXCEPT !.op = "create", !.ok = FALSE, !.status = s,
                              !.err = <<"status">>]
            /\ UNCHANGED tasks
       ELSE /\ \E ty \in StoredTypes(types) \cup {NULL} :
                  tasks' = Append(tasks,
                              [status |-> IF s = NoStatus THEN StatusDefault ELSE s,
                               completed_at |-> NULL, task_type |-> ty,
                               name |-> "a"])
            /\ last' = [NoOp EXCEPT !.op = "create", !.task = Len(tasks) + 1,
                              !.status = s]
    /\ UNCHANGED <<clock, users, rows, nextId, engine, req, types, auth, call>>

\* POST /tasks/{t}/complete/ : TaskViewSet.complete
Complete(t) ==
    /\ last = NoOp
    /\ TaskExists(tasks, t)
    /\ LET done == MarkCompleted(tasks, t, tasks[t], clock)
       IN  /\ done.now <= MaxClock + 1
           /\ tasks' = done.db
           /\ clock' = done.now
    /\ last' = [NoOp EXCEPT !.op = "complete", !.task = t]
    /\ UNCHANGED <<users, rows, nextId, engine, req, types, auth, call>>

\* variant: cancel also clears the completion time
Cancel_Clear(t) ==
    /\ last = NoOp
    /\ TaskExists(tasks, t)
    /\ tasks' = [tasks EXCEPT ![t] = [@ EXCEPT !.status = "cancelled",
                                              !.completed_at = NULL]]
    /\ last' = [NoOp EXCEPT !.op = "cancel", !.task = t]
    /\ UNCHANGED <<clock, users, rows, nextId, engine, req, types, auth, call>>

\* POST /tasks/{t}/cancel/ : TaskViewSet.cancel
Cancel(t) ==
    /\ last = NoOp
    /\ TaskExists(tasks, t)
    /\ LET done == Save(tasks, t, [tasks[t] EXCEPT !.status = "cancelled"], clock)
       IN  /\ done.now <= MaxClock + 1
           /\ tasks' = done.db
           /\ clock' = done.now
    /\ last' = [NoOp EXCEPT !.op = "cancel", !.task = t]
    /\ UNCHANGED <<users, rows, nextId, engine, req, types, auth, call>>

\* variant: a task that is completed cannot change status any more
UpdateStatus_Guarded(t, s, valid) ==
    /\ last = NoOp
    /\ TaskExists(tasks, t)
    /\ IF ~valid \/ tasks[t].status = "completed"
       THEN /\ last' = [NoOp EXCEPT !.op = "update", !.task = t, !.status = s,
                              !.valid = valid, !.ok = FALSE, !.err = <<"fields">>]
            /\ UNCHANGED <<tasks, clock>>
       ELSE LET done == Save(tasks, t, [tasks[t] EXCEPT !.status = s], clock)
            IN  /\ done.now <= MaxClock + 1
                /\ tasks' = done.db
                /\ clock' = done.now
                /\ last' = [NoOp EXCEPT !.op = "update", !.task = t, !.status = s,
                                  !.valid = valid]
    /\ UNCHANGED <<users, rows, nextId, engine, req, types, auth, call>>

\* variant: validate() runs before the fields are validated
UpdateStatus_ValidateFirst(t, s, valid) ==
    /\ last = NoOp
    /\ TaskExists(tasks, t)
    /\ LET validated == IF s = "completed"
                        THEN MarkCompleted(tasks, t, tasks[t], clock)
                        ELSE [db |-> tasks, inst |-> tasks[t], now |-> clock]
           done == IF valid
                   THEN Save(validated.db, t,
                             [validated.inst EXCEPT !.status = s], validated.now)
                   ELSE validated
       IN  /\ done.now <= MaxClock + 1
           /\ tasks' = done.db
           /\ clock' = done.now
    /\ last' = [NoOp EXCEPT !.op = "update", !.task = t, !.status = s,
                      !.valid = valid, !.ok = valid,
                      !.err = IF valid THEN <<>> ELSE <<"fields">>]
    /\ UNCHANGED <<users, rows, nextId, engine, req, types, auth, call>>

\* PUT/PATCH /tasks/{t}/ {status: s, ...} : TaskUpdateSerializer. The fields
\* are validated first (valid: do the other fields of the body pass); only
\* then validate() runs, which calls mark_completed() for 'completed'; then
\* ModelSerializer.update (setattr and save).
UpdateStatus(t, s, valid) ==
    /\ last = NoOp
    /\ TaskExists(tasks, t)
    /\ IF ~valid
       THEN /\ last' = [NoOp EXCEPT !.op = "update", !.task = t, !.status = s,
                              !.valid = FALSE, !.ok = FALSE, !.err = <<"fields">>]
            /\ UNCHANGED <<tasks, clock>>
       ELSE LET validated == IF s = "completed"
                             THEN MarkCompleted(tasks, t, tasks[t], clock)
                             ELSE [db |-> tasks, inst |-> tasks[t], now |-> clock]
                done == Save(validated.db, t,
                             [validated.inst EXCEPT !.status = s], validated.now)
            IN  /\ done.now <= MaxClock + 1
                /\ tasks' = done.db
                /\ clock' = done.now
                /\ last' = [NoOp EXCEPT !.op = "update", !.task = t, !.status = s]
    /\ UNCHANGED <<users, rows, nextId, engine, req, types, auth, call>>

\* an existing task is loaded, its status set to s and the object saved (the
\* admin change form of TaskAdmin): Task.save() with task_pre_save
DirectSave(t, s) ==
    /\ last = NoOp
    /\ TaskExists(tasks, t)
    /\ LET done == Save(tasks, t, [tasks[t] EXCEPT !.status = s], clock)
       IN  /\ done.now <= MaxClock + 1
           /\ tasks' = done.db
           /\ clock' = done.now
    /\ last' = [NoOp EXCEPT !.op = "save", !.task = t, !.status = s]
    /\ UNCHANGED <<users, rows, nextId, engine, req, types, auth, call>>

\* POST /tasks/{t}/assign/ {user_ids: ids} by the authenticated user actor:
\* TaskViewSet.assign with TaskAssignmentCreateSerializer (the reconcile)
Reconcile(t, ids, actor) ==
    /\ last = NoOp
    /\ TaskExists(tasks, t)
    /\ actor \in users
    /\ IF ~UserIdsValid(users, ids)
       THEN /\ last' = [NoOp EXCEPT !.op = "reconcile", !.ids = ids, !.ok = FALSE,
                              !.err = MissingIds(users, ids)]
            /\ UNCHANGED <<rows, nextId, clock>>
       ELSE LET kept == DeleteNotIn(rows, t, ids)
                done == GetOrCreateAll(kept, users, t, ids, actor, clock, nextId)
            IN  /\ done.now <= MaxClock + 1
                /\ rows' = done.rows
                /\ nextId' = done.nid
                /\ clock' = done.now
                /\ last' = [NoOp EXCEPT !.op = "reconcile", !.task = t,
                                  !.actor = actor, !.ids = ids,
                                  !.ret = <<t, ids>>,
                                  !.ncreated = Cardinality(done.rows \ rows),
                                  !.ndeleted = Cardinality(rows \ done.rows)]
    /\ UNCHANGED <<users, tasks, engine, req, types, auth, call>>

\* variant: assign_to_users replaces the assignee set
AssignToUsers_Replace(t, ids, by) ==
    /\ last = NoOp
    /\ TaskExists(tasks, t)
    /\ LET done == GetOrCreateAll(DeleteNotIn(rows, t, ids), users, t, ids, by,
                                  clock, nextId)
       IN  /\ done.now <= MaxClock + 1
           /\ rows' = done.rows
           /\ nextId' = done.nid
           /\ clock' = done.now
           /\ last' = [NoOp EXCEPT !.op = "assign_to_users", !.task = t,
                             !.actor = by, !.ids = ids, !.ok = ~done.raised,
                             !.ret = done.objs,
                             !.ncreated = Cardinality(done.rows \ rows)]
    /\ UNCHANGED <<users, tasks, engine, req, types, auth, call>>

\* Task.assign_to_users(user_ids, assigned_by): additive, no transaction
AssignToUsers(t, ids, by) ==
    /\ last = NoOp
    /\ TaskExists(tasks, t)
    /\ LET done == GetOrCreateAll(rows, users, t, ids, by, clock, nextId)
       IN  /\ done.now <= MaxClock + 1
           /\ rows' = done.rows
           /\ nextId' = done.nid
           /\ clock' = done.now
           /\ last' = [NoOp EXCEPT !.op = "assign_to_users", !.task = t,
                             !.actor = by, !.ids = ids, !.ok = ~done.raised,
                             !.ret = done.objs,
                             !.ncreated = Cardinality(done.rows \ rows)]
    /\ UNCHANGED <<users, tasks, engine, req, types, auth, call>>

\* TaskAssignment.objects.create(task, user, assigned_by): a plain INSERT,
\* refused by the unique (task, user) pair with an IntegrityError
DirectCreate(t, u, by) ==
    /\ last = NoOp
    /\ TaskExists(tasks, t)
    /\ u \in users
    /\ IF UniqueViolation(rows, t, u)
       THEN /\ last' = [NoOp EXCEPT !.op = "direct_create", !.task = t,
                              !.actor = by, !.ids = <<u>>, !.ok = FALSE]
            /\ UNCHANGED <<rows, nextId, clock>>
       ELSE /\ clock <= MaxClock
            /\ rows' = rows \cup {NewRow(nextId, t, u, by, clock)}
            /\ nextId' = nextId + 1
            /\ clock' = clock + 1
            /\ last' = [NoOp EXCEPT !.op = "direct_create", !.task = t,
                              !.actor = by, !.ids = <<u>>, !.ncreated = 1]
    /\ UNCHANGED <<users, tasks, engine, req, types, auth, call>>

\* ---------------------------------------------------------------- concurrent requests
\* POST /tasks/{t}/assign/ served by worker p, one database statement per step.
\* A transaction's deletes (del) and inserts (ins) are invisible to the other
\* worker until it commits.

\* p is inside "with transaction.atomic()" and has issued its first statement
InTx(p) == req[p].pc \in {"get", "create", "reget", "commit"}

\* the rows a statement of p sees: the committed rows and p's own changes
Visible(p) == (rows \ req[p].del) \cup req[p].ins

\* the rows the DELETE of p removes
DeleteTargets(p) ==
    {r \in rows : r.task = req[p].task /\ r.user \notin Range(req[p].ids)}

\* the workers whose open transaction p's next statement waits for. sqlite has
\* one writer at a time; postgresql waits for the holder of a row lock and for
\* the uncommitted insert of the same unique key.
WaitsFor(p) ==
    LET others == {q \in Procs \ {p} : InTx(q)}
        t == req[p].task
    IN  IF req[p].pc = "delete"
        THEN IF engine = "sqlite" THEN others
             ELSE {q \in others : req[q].del \cap DeleteTargets(p) # {}}
        ELSE IF req[p].pc = "create" /\ engine = "postgresql"
        THEN {q \in others :
                 \/ PairRows(req[q].ins, t, req[p].ids[req[p].i]) # {}
                 \/ PairRows(req[q].del, t, req[p].ids[req[p].i]) # {}}
        ELSE {}

\* the loop moves to the next user id, or leaves the atomic block
Advance(r) ==
    IF r.i < Len(r.ids) THEN [r EXCEPT !.pc = "get", !.i = r.i + 1]
    ELSE [r EXCEPT !.pc = "commit"]

\* an exception leaves the atomic block: the transaction is rolled back
RolledBack(r, why) ==
    [r EXCEPT !.pc = "done", !.res = why, !.del = {}, !.ins = {}, !.i = 0,
              !.actor = NULL]

\* TaskViewSet.assign: get_object, serializer.is_valid()
Request(p, t, ids, actor) ==
    /\ req[p].pc = "idle"
    /\ TaskExists(tasks, t)
    /\ actor \in users
    /\ req' = [req EXCEPT ![p] =
          IF UserIdsValid(users, ids)
          THEN [Idle EXCEPT !.pc = "delete", !.task = t, !.ids = ids,
                            !.actor = actor]
          ELSE [Idle EXCEPT !.pc = "done", !.res = "invalid"]]
    /\ UNCHANGED <<clock, users, tasks, rows, nextId, last, engine, types, auth, call>>

\* variant: no transaction.atomic(), the DELETE is committed at once
DeleteStmt_Autocommit(p) ==
    /\ req[p].pc = "delete"
    /\ WaitsFor(p) = {}
    /\ rows' = rows \ DeleteTargets(p)
    /\ req' = [req EXCEPT ![p] =
          [@ EXCEPT !.pc = "get", !.i = 1,
                    !.ndel = Cardinality(DeleteTargets(p))]]
    /\ UNCHANGED <<clock, users, tasks, nextId, last, engine, types, auth, call>>

\* the DELETE of the rows whose user is not desired
DeleteStmt(p) ==
    /\ req[p].pc = "delete"
    /\ WaitsFor(p) = {}
    /\ req' = [req EXCEPT ![p] =
          [@ EXCEPT !.pc = "get", !.i = 1, !.del = DeleteTargets(p),
                    !.ndel = Cardinality(DeleteTargets(p))]]
    /\ UNCHANGED <<clock, users, tasks, rows, nextId, last, engine, types, auth, call>>

\* get_or_create: the SELECT
GetStmt(p) ==
    /\ req[p].pc = "get"
    /\ req' = [req EXCEPT ![p] =
          IF PairRows(Visible(p), @.task, @.ids[@.i]) # {}
          THEN Advance(@)
          ELSE [@ EXCEPT !.pc = "create"]]
    /\ UNCHANGED <<clock, users, tasks, rows, nextId, last, engine, types, auth, call>>

\* get_or_create: the INSERT in its savepoint; the unique index refuses a pair
\* that has a committed row (IntegrityError)
CreateStmt(p) ==
    /\ req[p].pc = "create"
    /\ WaitsFor(p) = {}
    /\ LET t == req[p].task
           u == req[p].ids[req[p].i]
       IN  IF UniqueViolation(rows, t, u)
           THEN /\ req' = [req EXCEPT ![p] =
                              [@ EXCEPT !.pc = "reget", !.raced = TRUE]]
                /\ UNCHANGED <<clock, nextId>>
           ELSE /\ nextId <= MaxRowId
                /\ req' = [req EXCEPT ![p] =
                      Advance([@ EXCEPT !.ins =
                          @ \cup {NewRow(nextId, t, u, req[p].actor, clock)}])]
                /\ nextId' = nextId + 1
                /\ clock' = clock + 1
    /\ UNCHANGED <<users, tasks, rows, last, engine, types, auth, call>>

\* get_or_create after the IntegrityError: SELECT again, re-raise if no row
RegetStmt(p) ==
    /\ req[p].pc = "reget"
    /\ req' = [req EXCEPT ![p] =
          IF PairRows(Visible(p), @.task, @.ids[@.i]) # {}
          THEN Advance(@)
          ELSE RolledBack(@, "integrity")]
    /\ UNCHANGED <<clock, users, tasks, rows, nextId, last, engine, types, auth, call>>

\* the atomic block is left: COMMIT, with the deferred foreign key check
Commit(p) ==
    /\ req[p].pc = "commit"
    /\ IF \A r \in req[p].ins : r.user \in users
       THEN /\ rows' = Visible(p)
            /\ req' = [req EXCEPT ![p] =
                  [@ EXCEPT !.pc = "done", !.res = "ok", !.del = {}, !.ins = {},
                            !.i = 0, !.actor = NULL]]
       ELSE /\ req' = [req EXCEPT ![p] = RolledBack(@, "foreign_key")]
            /\ UNCHANGED rows
    /\ UNCHANGED <<clock, users, tasks, nextId, last, engine, types, auth, call>>

\* postgresql finds two transactions waiting for each other and aborts one
DeadlockAbort(p) ==
    /\ \E q \in WaitsFor(p) : p \in WaitsFor(q)
    /\ req' = [req EXCEPT ![p] =
          RolledBack([@ EXCEPT !.raced = TRUE], "deadlock")]
    /\ UNCHANGED <<clock, users, tasks, rows, nextId, last, engine, types, auth, call>>

\* the response is returned; the worker is free again
Finish(p) ==
    /\ req[p].pc = "done"
    /\ req' = [req EXCEPT ![p] = Idle]
    /\ UNCHANGED <<clock, users, tasks, rows, nextId, last, engine, types, auth, call>>

\* a user is deleted (admin): TaskAssignment.user is CASCADE, assigned_by is
\* SET_NULL. Taken while no transaction is open.
DeleteUser(u) ==
    /\ u \in users
    /\ \A p \in Procs : ~InTx(p)
    /\ users' = users \ {u}
    /\ rows' = {[r EXCEPT !.assigned_by = IF @ = u THEN NULL ELSE @] :
                  r \in {q \in rows : q.user # u}}
    /\ UNCHANGED <<clock, tasks, nextId, last, engine, req, types, auth, call>>

\* DELETE /tasks/{t}/ (ModelViewSet.destroy): TaskAssignment.task is CASCADE
DeleteTask(t) ==
    /\ last = NoOp
    /\ TaskExists(tasks, t)
    /\ tasks' = [tasks EXCEPT ![t] = Deleted]
    /\ rows' = rows \ TaskRows(rows, t)
    /\ last' = [NoOp EXCEPT !.op = "delete_task", !.task = t]
    /\ UNCHANGED <<clock, users, nextId, engine, req, types, auth, call>>

\* POST /task-types/ (ModelViewSet.create): a row with the next primary key
CreateTaskType ==
    /\ last = NoOp
    /\ Len(types) + 1 \in TaskTypeIds
    /\ types' = Append(types, TRUE)
    /\ last' = [NoOp EXCEPT !.op = "create_type", !.ret = <<Len(types) + 1>>]
    /\ UNCHANGED <<clock, users, tasks, rows, nextId, engine, req, auth, call>>

\* DELETE /task-types/{ty}/ (ModelViewSet.destroy): Task.task_type is SET_NULL,
\* an UPDATE of the referring tasks that sends no pre_save
DeleteTaskType(ty) ==
    /\ last = NoOp
    /\ ty \in StoredTypes(types)
    /\ types' = [types EXCEPT ![ty] = FALSE]
    /\ tasks' = [t \in DOMAIN tasks |->
                   [tasks[t] EXCEPT !.task_type = IF @ = ty THEN NULL ELSE @]]
    /\ last' = [NoOp EXCEPT !.op = "delete_type", !.ret = <<ty>>]
    /\ UNCHANGED <<clock, users, rows, nextId, engine, req, auth, call>>

\* variant: the join forgets the user
AssignedTasks_AnyUser(db, rs, u, t) ==
    SelectSeq([i \in 1..t |-> t + 1 - i], LAMBDA x : TaskRows(rs, x) # {})

\* user.assigned_tasks.all(): Task joined with TaskAssignment on user u, one
\* result per row, in Task.Meta.ordering (latest created first); t is the
\* highest primary key
RECURSIVE AssignedTasks(_, _, _, _)
AssignedTasks(db, rs, u, t) ==
    IF t = 0 THEN << >>
    ELSE [i \in 1..Cardinality(PairRows(rs, t, u)) |-> t]
            \o AssignedTasks(db, rs, u, t - 1)

\* "if status_filter: tasks = tasks.filter(status=status_filter)"
FilterStatus(db, ts, f) ==
    IF f = NoStatus THEN ts ELSE SelectSeq(ts, LAMBDA t : db[t].status = f)

\* GET /users/{u}/tasks/?status=f : UserViewSet.tasks, get_object() answers
\* 404 for a user that is not stored
UserTasks(u, f) ==
    /\ last = NoOp
    /\ last' = IF u \in users
               THEN [NoOp EXCEPT !.op = "user_tasks", !.ids = <<u>>, !.status = f,
                       !.ret = FilterStatus(tasks,
                                  AssignedTasks(tasks, rows, u, Len(tasks)), f)]
               ELSE [NoOp EXCEPT !.op = "user_tasks", !.ids = <<u>>, !.status = f,
                       !.ok = FALSE, !.err = <<"not_found">>]
    /\ UNCHANGED <<clock, users, tasks, rows, nextId, engine, req, types, auth, call>>

\* GET /tasks/my_tasks/?status=f by the authenticated user actor :
\* TaskViewSet.my_tasks (the queryset it hands to the paginator)
MyTasks(actor, f) ==
    /\ last = NoOp
    /\ actor \in users
    /\ last' = [NoOp EXCEPT !.op = "my_tasks", !.actor = actor, !.ids = <<actor>>,
                      !.status = f,
                      !.ret = FilterStatus(tasks,
                                 AssignedTasks(tasks, rows, actor, Len(tasks)), f)]
    /\ UNCHANGED <<clock, users, tasks, rows, nextId, engine, req, types, auth, call>>

\* ---------------------------------------------------------------- task requests, by statement
\* A request on a task served by worker p: get_object() loads the row into an
\* object, the handler changes the object, and every save() runs task_pre_save
\* (a SELECT of the stored row) before its UPDATE of all columns. Requests are
\* in autocommit: each statement is a step, and the other worker may run
\* between two of them.

\* what a task request does: the three actions, an update of the name only, an
\* update that sets the status, and a save of a loaded object with a new status
TaskOps == {"complete", "cancel", "rename", "update", "save"}

\* variant: the receiver does not test completed_at
HookCompletes_NoTimestampTest(old, inst) ==
    old.status # inst.status /\ inst.status = "completed"

\* task_pre_save: "old_instance.status != instance.status" and then
\* "instance.status == 'completed' and not instance.completed_at"
HookCompletes(old, inst) ==
    /\ old.status # inst.status
    /\ inst.status = "completed"
    /\ inst.completed_at = NULL

\* get_object(): the row of task t is loaded for request op (with status s
\* for an update or a save)
LoadTask(p, op, t, s) ==
    /\ call[p].pc = "idle"
    /\ call[p].op = "none"
    /\ TaskExists(tasks, t)
    /\ (op \in {"update", "save"}) <=> (s # NoStatus)
    /\ call' = [call EXCEPT ![p] =
          [NoCall EXCEPT !.pc = "loaded", !.op = op, !.task = t, !.status = s,
                         !.inst = tasks[t]]]
    /\ UNCHANGED <<clock, users, tasks, rows, nextId, last, engine, req, types, auth>>

\* the handler up to its first save(): mark_completed() for complete and for
\* TaskUpdateSerializer.validate with 'completed' (after which update() saves
\* once more), an assignment to status or name otherwise
Handle(p) ==
    /\ call[p].pc = "loaded"
    /\ LET c == call[p]
           marks == \/ c.op = "complete"
                    \/ c.op = "update" /\ c.status = "completed"
       IN  /\ call' = [call EXCEPT ![p] =
                 [c EXCEPT !.pc = "hook", !.depth = 1,
                    !.todo = IF c.op = "update" /\ c.status = "completed"
                             THEN 1 ELSE 0,
                    !.inst = IF marks
                             THEN [@ EXCEPT !.status = "completed",
                                            !.completed_at = clock]
                             ELSE IF c.op = "cancel"
                             THEN [@ EXCEPT !.status = "cancelled"]
                             ELSE IF c.op = "rename"
                             THEN [@ EXCEPT !.name = "b"]
                             ELSE [@ EXCEPT !.status = c.status]]]
           /\ clock' = IF marks THEN clock + 1 ELSE clock
    /\ UNCHANGED <<users, tasks, rows, nextId, last, engine, req, types, auth>>

\* task_pre_save inside save(): the stored row is read and compared; on the
\* completion branch mark_completed() stamps the object and calls save()
\* again, one frame deeper. At MaxDepth frames the interpreter gives up
\* (RecursionError).
Hook(p) ==
    /\ call[p].pc = "hook"
    /\ LET c == call[p]
       IN  IF HookCompletes(tasks[c.task], c.inst)
           THEN IF c.depth < MaxDepth
                THEN /\ call' = [call EXCEPT ![p] =
                           [c EXCEPT !.depth = @ + 1, !.nested = @ + 1,
                              !.inst = [@ EXCEPT !.status = "completed",
                                                 !.completed_at = clock]]]
                     /\ clock' = clock + 1
                ELSE /\ call' = [call EXCEPT ![p] = [c EXCEPT !.pc = "overflow"]]
                     /\ UNCHANGED clock
           ELSE /\ call' = [call EXCEPT ![p] = [c EXCEPT !.pc = "write"]]
                /\ UNCHANGED clock
    /\ UNCHANGED <<users, tasks, rows, nextId, last, engine, req, types, auth>>

\* the UPDATE of save(): every column takes the value of the object. A nested
\* save() returns into the receiver of the outer one, which goes on to its own
\* UPDATE; after validate() the serializer's update() sets the status and
\* saves; otherwise the request is done.
Write(p) ==
    /\ call[p].pc = "write"
    /\ LET c == call[p]
       IN  /\ tasks' = [tasks EXCEPT ![c.task] = c.inst]
           /\ call' = [call EXCEPT ![p] =
                 IF c.depth > 1 THEN [c EXCEPT !.depth = @ - 1]
                 ELSE IF c.todo > 0
                 THEN [c EXCEPT !.todo = @ - 1, !.pc = "hook", !.nested = 0,
                                !.inst = [@ EXCEPT !.status = c.status]]
                 ELSE [c EXCEPT !.pc = "done", !.depth = 0]]
    /\ UNCHANGED <<clock, users, rows, nextId, last, engine, req, types, auth>>

\* the statements of worker p
Run(p) == Handle(p) \/ Hook(p) \/ Write(p)

\* ---------------------------------------------------------------- permissions
VIEWSETS == {"users", "task-types", "tasks"}

\* permission_classes of the three viewsets (and DEFAULT_PERMISSION_CLASSES)
PermissionClasses(view) ==
    CASE view = "users" -> {"IsAuthenticated"}
      [] view = "task-types" -> {"IsAuthenticated"}
      [] view = "tasks" -> {"IsAuthenticated"}

\* variant: any caller is let in
HasPermission_AllowAny(view, authenticated) == TRUE

\* APIView.check_permissions, run by initial() before the handler
HasPermission(view, authenticated) ==
    "IsAuthenticated" \in PermissionClasses(view) => authenticated

\* APIView.permission_denied for a request without credentials: nothing of
\* the handler has run
Refuse(view, op) ==
    /\ last = NoOp
    /\ last' = [NoOp EXCEPT !.op = op, !.ok = FALSE, !.err = <<"unauthorized">>]
    /\ UNCHANGED <<clock, users, tasks, rows, nextId, engine, req, types, auth, call>>

\* POST /token/ (obtain_auth_token): later requests carry the token
ObtainToken ==
    /\ last = NoOp
    /\ ~auth
    /\ auth' = TRUE
    /\ UNCHANGED <<clock, users, tasks, rows, nextId, last, engine, req, types, call>>

\* the client stops sending credentials
DropCredentials ==
    /\ last = NoOp
    /\ auth
    /\ auth' = FALSE
    /\ UNCHANGED <<clock, users, tasks, rows, nextId, last, engine, req, types, call>>

\* the primary keys of the stored rows of a viewset's queryset
StoredIds(view) ==
    CASE view = "users" -> users
      [] view = "task-types" -> StoredTypes(types)
      [] view = "tasks" -> StoredTasks(tasks)

\* the keys of a queryset as a list, in increasing order
RECURSIVE Listed(_)
Listed(S) ==
    IF S = {} THEN << >>
    ELSE LET m == CHOOSE x \in S : \A y \in S : x <= y
         IN  <<m>> \o Listed(S \ {m})

\* GET /{view}/ : ListModelMixin.list (the queryset it serves)
ListView(view) ==
    /\ last = NoOp
    /\ last' = [NoOp EXCEPT !.op = "list", !.ret = Listed(StoredIds(view))]
    /\ UNCHANGED <<clock, users, tasks, rows, nextId, engine, req, types, auth, call>>

\* GET /{view}/{pk}/ : RetrieveModelMixin.retrieve, 404 when not stored
Retrieve(view, pk) ==
    /\ last = NoOp
    /\ last' = IF pk \in StoredIds(view)
               THEN [NoOp EXCEPT !.op = "retrieve", !.ret = <<pk>>]
               ELSE [NoOp EXCEPT !.op = "retrieve", !.ok = FALSE,
                       !.err = <<"not_found">>]
    /\ UNCHANGED <<clock, users, tasks, rows, nextId, engine, req, types, auth, call>>

\* PUT /task-types/{ty}/ : UpdateModelMixin.update of name and description,
\* which are not part of the state here
UpdateTaskType(ty) ==
    /\ last = NoOp
    /\ last' = IF ty \in StoredTypes(types)
               THEN [NoOp EXCEPT !.op = "update_type", !.ret = <<ty>>]
               ELSE [NoOp EXCEPT !.op = "update_type", !.ok = FALSE,
                       !.err = <<"not_found">>]
    /\ UNCHANGED <<clock, users, tasks, rows, nextId, engine, req, types, auth, call>>

NextLifecycle ==
    \/ Respond
    \/ \E s \in STATUS_CHOICES \cup {NoStatus} : CreateTask(s)
    \/ \E t \in TaskIds : Complete(t)
    \/ \E t \in TaskIds : Cancel(t)
    \/ \E t \in TaskIds, s \in STATUS_CHOICES, valid \in BOOLEAN :
          UpdateStatus(t, s, valid)
    \/ \E t \in TaskIds, s \in STATUS_CHOICES : DirectSave(t, s)

\* the user_ids lists of the requests, split by what validate_user_ids says
\* while every user of UserIds exists
ReconcileInputs == ListsOf(RequestIds, 0, MaxLen)
AcceptedInputs == {ids \in ReconcileInputs : UserIdsValid(UserIds, ids)}
RejectedInputs == ReconcileInputs \ AcceptedInputs
AssignInputs == ListsOf(UserIds \cup {999}, 1, MaxLen)

\* a request to TaskViewSet.assign arrives. A rejected request leaves the same
\* state whatever its task and caller, so one task and one caller stand for all.
AssignRequest ==
    /\ last = NoOp
    /\ \/ \E ids \in RejectedInputs : Reconcile(1, ids, 1)
       \/ \E ids \in AcceptedInputs, t \in TaskIds, a \in Actors :
             Reconcile(t, ids, a)

\* as AssignRequest, with the lists that pass validation only, sent by the
\* second account
AcceptedAssignRequest ==
    /\ last = NoOp
    /\ \E ids \in AcceptedInputs, t \in TaskIds : Reconcile(t, ids, 2)

\* a caller of Task.assign_to_users
AssignToUsersCall ==
    /\ last = NoOp
    /\ \E t \in TaskIds, ids \in AssignInputs : AssignToUsers(t, ids, 1)

\* a caller of TaskAssignment.objects.create
DirectCreateCall ==
    /\ last = NoOp
    /\ \E t \in TaskIds, u \in UserIds, by \in Actors : DirectCreate(t, u, by)

NextReconcile ==
    \/ Respond
    \/ CreateTask("pending")
    \/ AssignRequest
    \/ DirectCreateCall

NextAssign ==
    \/ Respond
    \/ CreateTask("pending")
    \/ AcceptedAssignRequest
    \/ AssignToUsersCall
    \/ DirectCreateCall

\* the user_ids lists of the concurrent requests; both requests come from the
\* same account
TxInputs == ListsOf(UserIds, 1, MaxLen)
ConcurrentActors == {1}

NextConc ==
    \/ \E u \in UserIds \ Actors : DeleteUser(u)
    \/ \E p \in Procs, t \in TaskIds, ids \in TxInputs, a \in ConcurrentActors :
          Request(p, t, ids, a)
    \/ \E p \in Procs :
          \/ DeleteStmt(p)
          \/ GetStmt(p)
          \/ CreateStmt(p)
          \/ RegetStmt(p)
          \/ Commit(p)
          \/ DeadlockAbort(p)
          \/ Finish(p)

\* the requests on the whole store: one caller, lists of stored users
StoreInputs == ListsOf(UserIds, 0, MaxLen)
StoreActor == 1

CompleteCall == \E t \in TaskIds : Complete(t)
CancelCall == \E t \in TaskIds : Cancel(t)
UpdateCall == \E t \in TaskIds : UpdateStatus(t, "in_progress", TRUE)

StoreAssignRequest ==
    /\ last = NoOp
    /\ \E t \in TaskIds, ids \in StoreInputs : Reconcile(t, ids, StoreActor)

\* one user at a time is assigned
AssignOneCall ==
    /\ last = NoOp
    /\ \E t \in TaskIds, u \in Actors : AssignToUsers(t, <<u>>, StoreActor)

DeleteUserCall ==
    /\ last = NoOp
    /\ \E u \in UserIds \ Actors : DeleteUser(u)

DeleteTaskCall == \E t \in TaskIds : DeleteTask(t)
DeleteTaskTypeCall == \E ty \in TaskTypeIds : DeleteTaskType(ty)

NextStore ==
    \/ Respond
    \/ CreateTask(NoStatus)
    \/ CompleteCall
    \/ CancelCall
    \/ UpdateCall
    \/ StoreAssignRequest
    \/ AssignOneCall
    \/ DeleteUserCall
    \/ DeleteTaskCall
    \/ CreateTaskType
    \/ DeleteTaskTypeCall

\* the status query parameter of the two reads
ReadFilters == STATUS_CHOICES \cup {NoStatus}

UserTasksCall ==
    /\ last = NoOp
    /\ \E u \in UserIds, f \in ReadFilters : UserTasks(u, f)

MyTasksCall ==
    /\ last = NoOp
    /\ \E f \in ReadFilters : MyTasks(StoreActor, f)

\* the operations on tasks that have a type and assignees
NextFrame ==
    \/ Respond
    \/ CreateTask(NoStatus)
    \/ CreateTaskType
    \/ CompleteCall
    \/ CancelCall
    \/ UpdateCall
    \/ AssignOneCall

NextRead ==
    \/ Respond
    \/ CreateTask(NoStatus)
    \/ CompleteCall
    \/ CancelCall
    \/ StoreAssignRequest
    \/ UserTasksCall
    \/ MyTasksCall

\* the endpoints of the router: APIView.dispatch runs the permission check
\* (initial) and only then the handler
AuthInputs == ListsOf({StoreActor}, 0, MaxLen)

UsersList ==
    /\ last = NoOp
    /\ IF HasPermission("users", auth)
       THEN ListView("users")
       ELSE Refuse("users", "list")

UsersRetrieve ==
    /\ last = NoOp
    /\ IF HasPermission("users", auth)
       THEN Retrieve("users", StoreActor)
       ELSE Refuse("users", "retrieve")

UsersTasks ==
    /\ last = NoOp
    /\ IF HasPermission("users", auth)
       THEN UserTasks(StoreActor, NoStatus)
       ELSE Refuse("users", "user_tasks")

TaskTypesList ==
    /\ last = NoOp
    /\ IF HasPermission("task-types", auth)
       THEN ListView("task-types")
       ELSE Refuse("task-types", "list")

TaskTypesRetrieve ==
    /\ last = NoOp
    /\ IF HasPermission("task-types", auth)
       THEN \E ty \in TaskTypeIds : Retrieve("task-types", ty)
       ELSE Refuse("task-types", "retrieve")

TaskTypesCreate ==
    /\ last = NoOp
    /\ IF HasPermission("task-types", auth)
       THEN CreateTaskType
       ELSE Refuse("task-types", "create_type")

TaskTypesUpdate ==
    /\ last = NoOp
    /\ IF HasPermission("task-types", auth)
       THEN \E ty \in TaskTypeIds : UpdateTaskType(ty)
       ELSE Refuse("task-types", "update_type")

TaskTypesDelete ==
    /\ last = NoOp
    /\ IF HasPermission("task-types", auth)
       THEN DeleteTaskTypeCall
       ELSE Refuse("task-types", "delete_type")

TasksList ==
    /\ last = NoOp
    /\ IF HasPermission("tasks", auth)
       THEN ListView("tasks")
       ELSE Refuse("tasks", "list")

TasksRetrieve ==
    /\ last = NoOp
    /\ IF HasPermission("tasks", auth)
       THEN \E t \in TaskIds : Retrieve("tasks", t)
       ELSE Refuse("tasks", "retrieve")

TasksCreate ==
    /\ last = NoOp
    /\ IF HasPermission("tasks", auth)
       THEN CreateTask(NoStatus)
       ELSE Refuse("tasks", "create")

TasksUpdate ==
    /\ last = NoOp
    /\ IF HasPermission("tasks", auth)
       THEN UpdateCall
       ELSE Refuse("tasks", "update")

TasksDelete ==
    /\ last = NoOp
    /\ IF HasPermission("tasks", auth)
       THEN DeleteTaskCall
       ELSE Refuse("tasks", "delete_task")

TasksAssign ==
    /\ last = NoOp
    /\ IF HasPermission("tasks", auth)
       THEN \E t \in TaskIds, ids \in AuthInputs :
               Reconcile(t, ids, StoreActor)
       ELSE Refuse("tasks", "reconcile")

TasksComplete ==
    /\ last = NoOp
    /\ IF HasPermission("tasks", auth)
       THEN CompleteCall
       ELSE Refuse("tasks", "complete")

TasksCancel ==
    /\ last = NoOp
    /\ IF HasPermission("tasks", auth)
       THEN CancelCall
       ELSE Refuse("tasks", "cancel")

TasksMyTasks ==
    /\ last = NoOp
    /\ IF HasPermission("tasks", auth)
       THEN MyTasks(StoreActor, NoStatus)
       ELSE Refuse("tasks", "my_tasks")

NextAuth ==
    \/ Respond
    \/ ObtainToken
    \/ DropCredentials
    \/ UsersList
    \/ UsersRetrieve
    \/ UsersTasks
    \/ TaskTypesList
    \/ TaskTypesRetrieve
    \/ TaskTypesCreate
    \/ TaskTypesUpdate
    \/ TaskTypesDelete
    \/ TasksList
    \/ TasksRetrieve
    \/ TasksCreate
    \/ TasksUpdate
    \/ TasksDelete
    \/ TasksAssign
    \/ TasksComplete
    \/ TasksCancel
    \/ TasksMyTasks

\* each worker serves at most one request on a task
NextTask ==
    \/ \E p \in Procs, t \in TaskIds, op \in TaskOps,
          s \in STATUS_CHOICES \cup {NoStatus} : LoadTask(p, op, t, s)
    \/ \E p \in Procs : Handle(p)
    \/ \E p \in Procs : Hook(p)
    \/ \E p \in Procs : Write(p)

\* one pending task has been created; the store is sqlite or postgresql, as
\* DATABASE_URL says
InitConc ==
    /\ clock = 1
    /\ users = UserIds
    /\ tasks = <<[status |-> "pending", completed_at |-> NULL, task_type |-> NULL,
                  name |-> "a"]>>
    /\ rows = {}
    /\ nextId = 1
    /\ last = NoOp
    /\ engine \in ENGINES
    /\ req = [p \in Procs |-> Idle]
    /\ types = << >>
    /\ auth = TRUE
    /\ call = [p \in Procs |-> NoCall]

SpecLifecycle == Init /\ [][NextLifecycle]_vars
SpecReconcile == Init /\ [][NextReconcile]_vars
SpecAssign == Init /\ [][NextAssign]_vars
SpecConc == InitConc /\ [][NextConc]_vars
SpecStore == Init /\ [][NextStore]_vars
SpecRead == Init /\ [][NextRead]_vars
SpecFrame == Init /\ [][NextFrame]_vars
SpecAuth == Init /\ [][NextAuth]_vars

\* one pending task has been created
InitTask ==
    /\ clock = 1
    /\ users = UserIds
    /\ tasks = <<[status |-> "pending", completed_at |-> NULL, task_type |-> NULL,
                  name |-> "a"]>>
    /\ rows = {}
    /\ nextId = 1
    /\ last = NoOp
    /\ engine = "sqlite"
    /\ req = [p \in Procs |-> Idle]
    /\ types = << >>
    /\ auth = TRUE
    /\ call = [p \in Procs |-> NoCall]

SpecTask == InitTask /\ [][NextTask]_vars

\* a worker that has started a request runs its statements to the end
SpecTaskLive == SpecTask /\ \A p \in Procs : WF_vars(Run(p))

\* ---------------------------------------------------------------- properties
\* a step that is a finished reconcile (accepted or rejected)
ReconcileStep == last = NoOp /\ last'.op = "reconcile"

\* C1: a completion (the complete action or a status update to 'completed') of a
\* task whose completed_at is already set leaves completed_at at the value the
\* first completion gave it.
C1_CompletionIdempotent ==
    [][(/\ last = NoOp
        /\ last'.op \in {"complete", "update"}
        /\ tasks'[last'.task].status = "completed"
        /\ tasks[last'.task].completed_at # NULL)
       => tasks'[last'.task].completed_at = tasks[last'.task].completed_at]_vars

\* C2: an accepted reconcile of task t with desired users D, the assignees
\* before being S, deletes exactly the rows of t for S \ D, creates exactly one
\* row (with a fresh key) for each user of D \ S, and keeps the very rows of
\* S \cap D; rows of other tasks are the same.
C2_ReconcileDiff ==
    [][(ReconcileStep /\ last'.ok) =>
        LET t == last'.task
            D == Range(last'.ids)
            S == Assignees(rows, t)
            gone == rows \ rows'
            made == rows' \ rows
        IN  /\ gone = {r \in rows : r.task = t /\ r.user \in S \ D}
            /\ {r.user : r \in made} = D \ S
            /\ Cardinality(made) = Cardinality(D \ S)
            /\ \A r \in made : r.task = t /\ r.id \notin {q.id : q \in rows}
            /\ \A r \in rows : r.task = t /\ r.user \in S \cap D => r \in rows'
       ]_vars

C2_Witness ==
    /\ last.op = "reconcile" /\ last.ok
    /\ last.ndeleted >= 1 /\ last.ncreated >= 1
    /\ Cardinality(TaskRows(rows, last.task)) > last.ncreated

\* C3: after an accepted reconcile the assignees of the task are exactly the
\* desired users, and the value returned is the task id with those user ids.
C3_ReconcileResult ==
    (last.op = "reconcile" /\ last.ok) =>
        /\ Assignees(rows, last.task) = Range(last.ids)
        /\ last.ret = <<last.task, last.ids>>
        /\ Range(last.ret[2]) = Assignees(rows, last.ret[1])

C3_Witness ==
    /\ last.op = "reconcile" /\ last.ok
    /\ last.ndeleted >= 1
    /\ Cardinality(Range(last.ret[2])) >= 2

\* C4: a reconcile whose desired users are the assignees the task already has
\* (the second of two reconciles with the same set) creates no row, deletes no
\* row and changes no assigned_at or assigned_by.
C4_ReconcileIdempotent ==
    [][(/\ ReconcileStep /\ last'.ok
        /\ Range(last'.ids) = Assignees(rows, last'.task))
       => rows' = rows]_vars

C4_Witness ==
    /\ last.op = "reconcile" /\ last.ok
    /\ last.ncreated = 0 /\ last.ndeleted = 0
    /\ \E r \in TaskRows(rows, last.task) : r.assigned_by # last.actor

\* C5: every row a reconcile creates has assigned_by = the acting user, and
\* every earlier row whose user is desired keeps assigned_by and assigned_at.
C5_ReconcileProvenance ==
    [][(ReconcileStep /\ last'.ok) =>
        /\ \A r \in rows' \ rows : r.assigned_by = last'.actor
        /\ \A r \in rows :
              (r.task = last'.task /\ r.user \in Range(last'.ids)) =>
                 \E q \in rows' :
                    /\ q.task = r.task /\ q.user = r.user
                    /\ q.assigned_by = r.assigned_by
                    /\ q.assigned_at = r.assigned_at
       ]_vars

C5_Witness ==
    /\ last.op = "reconcile" /\ last.ok
    /\ last.ncreated >= 1
    /\ \E r \in TaskRows(rows, last.task) :
          r.id < nextId - last.ncreated /\ r.assigned_by # last.actor

\* C6: a reconcile naming an id of no user is rejected, its error lists every
\* such id of the request, and no assignment row is created or deleted.
C6_UnknownIdsRejected ==
    [][(ReconcileStep /\ ~(Range(last'.ids) \subseteq users)) =>
        /\ ~last'.ok
        /\ Range(last'.err) = Range(last'.ids) \ users
        /\ rows' = rows /\ nextId' = nextId
       ]_vars

C6_Witness ==
    /\ last.op = "reconcile" /\ ~last.ok
    /\ Cardinality(Range(last.err)) >= 2
    /\ rows # {}

\* C9: there is never more than one row of a (task, user) pair, and a direct
\* create for a pair that has a row fails and leaves the store as it was.
UniquePairs ==
    \A r1, r2 \in rows : (r1.task = r2.task /\ r1.user = r2.user) => r1 = r2

C9_UniquePairs ==
    /\ []UniquePairs
    /\ [][(/\ last = NoOp /\ last'.op = "direct_create"
           /\ PairRows(rows, last'.task, last'.ids[1]) # {})
          => (~last'.ok /\ rows' = rows)]_vars

C9_Witness ==
    /\ last.op = "direct_create" /\ ~last.ok
    /\ Cardinality(PairRows(rows, last.task, last.ids[1])) = 1

\* C10: assign_to_users adds: afterwards the assignees are the earlier ones
\* united with ids, and every earlier row is still there, unmodified.
C10_AssignAdditive ==
    [][(last = NoOp /\ last'.op = "assign_to_users") =>
        /\ rows \subseteq rows'
        /\ \A r \in rows' \ rows :
              r.task = last'.task /\ r.user \in Range(last'.ids)
        /\ last'.ok => Assignees(rows', last'.task)
                          = Assignees(rows, last'.task) \cup Range(last'.ids)
       ]_vars

C10_Witness ==
    /\ last.op = "assign_to_users" /\ last.ok
    /\ last.ncreated >= 1
    /\ \E r \in TaskRows(rows, last.task) : r.user \notin Range(last.ids)

\* C7: the reconcile is all-or-nothing. No statement of a request changes the
\* stored rows except its successful COMMIT, which installs every delete and
\* every insert at once; a request that fails after its DELETE leaves every row
\* (with its assigned_at and assigned_by) as it was.
C7_AllOrNothing ==
    [][\A p \in Procs :
          (req'[p] # req[p] /\ req[p].pc # "idle") =>
             IF req[p].pc = "commit" /\ req'[p].res = "ok"
             THEN /\ req[p].del \cap rows' = {}
                  /\ req[p].ins \subseteq rows'
                  /\ rows' \ req[p].ins = rows \ req[p].del
             ELSE rows' = rows
      ]_vars

C7_Witness ==
    \E p \in Procs :
       /\ req[p].pc = "done"
       /\ req[p].res \in {"deadlock", "foreign_key", "integrity"}
       /\ req[p].ndel >= 1
       /\ \E r \in TaskRows(rows, req[p].task) : r.user \notin Range(req[p].ids)

\* C8: under concurrent reconciles there is never more than one row of a pair,
\* and a request that lost the race for inserting a pair ends successfully.
C8_RaceAbsorbed ==
    /\ UniquePairs
    /\ \A p \in Procs : (req[p].pc = "done" /\ req[p].raced) => req[p].res = "ok"


\* C12: creating a task with status 'completed' is rejected with an error on
\* the status field and stores nothing; every other status is accepted and
\* stored as given, and a body without status gives a 'pending' task; a task
\* that was just created has no completion time.
C12_CreateStatus ==
    [][(last = NoOp /\ last'.op = "create") =>
         IF last'.status = "completed"
         THEN /\ ~last'.ok
              /\ last'.err = <<"status">>
              /\ tasks' = tasks
         ELSE /\ last'.ok
              /\ Len(tasks') = Len(tasks) + 1
              /\ SubSeq(tasks', 1, Len(tasks)) = tasks
              /\ last'.task = Len(tasks')
              /\ tasks'[last'.task].status =
                    (IF last'.status = NoStatus THEN "pending" ELSE last'.status)
              /\ tasks'[last'.task].completed_at = NULL]_vars

C12_Witness ==
    /\ last.op = "create"
    /\ last.status = "completed"
    /\ ~last.ok
    /\ Len(tasks) = 1
    /\ tasks[1].status = "pending"

\* C13: a task whose completed_at is null and whose status changes to
\* 'completed', through the update serializer or through a direct save of the
\* object, ends with status 'completed' and a completed_at that is not null.
C13_CompletionStamped ==
    [][(/\ last = NoOp
        /\ last'.op \in {"update", "save"}
        /\ last'.ok
        /\ last'.status = "completed"
        /\ tasks[last'.task].status # "completed"
        /\ tasks[last'.task].completed_at = NULL)
       => /\ tasks'[last'.task].status = "completed"
          /\ tasks'[last'.task].completed_at # NULL]_vars

C13_Witness ==
    /\ last.op = "save"
    /\ last.status = "completed"
    /\ tasks[last.task].status = "completed"
    /\ tasks[last.task].completed_at = clock - 1
    /\ \E t \in StoredTasks(tasks) \ {last.task} :
          tasks[t].status = "completed" /\ tasks[t].completed_at # NULL

\* C14: every stored task with a completed_at that is not null has status
\* 'completed'.
C14_CompletedAtOnlyIfCompleted ==
    \A t \in StoredTasks(tasks) :
        tasks[t].completed_at # NULL => tasks[t].status = "completed"

\* C16: a valid update that sets status s on a task is accepted whatever the
\* status of the task was, and the task ends with status s.
C16_AnyTransition ==
    [][(/\ last = NoOp
        /\ last'.op = "update"
        /\ last'.valid)
       => /\ last'.ok
          /\ tasks'[last'.task].status = last'.status]_vars

C16_Witness ==
    /\ last.op = "update"
    /\ last.ok
    /\ last.status = "pending"
    /\ tasks[last.task].status = "pending"
    /\ tasks[last.task].completed_at # NULL

\* C19: an update that is rejected changes nothing in the store: the task keeps
\* its status and its completed_at, and no time is taken from the clock.
C19_RejectedUpdateInert ==
    [][(/\ last = NoOp
        /\ last'.op = "update"
        /\ ~last'.ok)
       => /\ tasks' = tasks
          /\ rows' = rows
          /\ clock' = clock]_vars

C19_Witness ==
    /\ last.op = "update"
    /\ ~last.ok
    /\ last.status = "completed"
    /\ tasks[last.task].status = "pending"
    /\ tasks[last.task].completed_at = NULL

\* C11: assign_to_users never touches the row of a pair that is already
\* assigned: the row stays as it is (same key, assigned_by and assigned_at)
\* whatever assigned_by is passed, and it is the record returned for that user;
\* a call whose users are all assigned already raises nothing, returns one
\* stored record per id and leaves the rows and the number of assignees alone.
C11_AssignExistingNoOp ==
    [][(last = NoOp /\ last'.op = "assign_to_users") =>
        LET t == last'.task
            ids == last'.ids
        IN  /\ \A u \in Range(ids) \cap Assignees(rows, t) :
                  PairRows(rows', t, u) = PairRows(rows, t, u)
            /\ last'.ok =>
                 /\ Len(last'.ret) = Len(ids)
                 /\ \A i \in 1..Len(ids) :
                       ids[i] \in Assignees(rows, t)
                          => last'.ret[i] \in PairRows(rows, t, ids[i])
            /\ Range(ids) \subseteq Assignees(rows, t) =>
                 /\ last'.ok
                 /\ rows' = rows
                 /\ Cardinality(Assignees(rows', t)) = Cardinality(Assignees(rows, t))
       ]_vars

C11_Witness ==
    /\ last.op = "assign_to_users"
    /\ last.ok
    /\ last.ncreated = 0
    /\ Len(last.ret) = 1
    /\ last.ret[1] \in rows
    /\ last.ret[1].user = last.ids[1]
    /\ last.ret[1].assigned_by # last.actor

\* C15: cancel gives the task the status 'cancelled' whatever its status was,
\* and changes nothing else: the completed_at and the task type of the task,
\* the other tasks, every assignment row, the users and the task types are as
\* before, and no time is read.
C15_CancelFrame ==
    [][(last = NoOp /\ last'.op = "cancel") =>
        /\ tasks' = [tasks EXCEPT ![last'.task] = [@ EXCEPT !.status = "cancelled"]]
        /\ rows' = rows
        /\ users' = users
        /\ types' = types
        /\ clock' = clock
       ]_vars

C15_Witness ==
    /\ last.op = "cancel"
    /\ tasks[last.task].status = "cancelled"
    /\ tasks[last.task].completed_at # NULL
    /\ tasks[last.task].task_type # NULL
    /\ TaskRows(rows, last.task) # {}

\* C20: an assignment row leaves the store only in a reconcile of its task
\* whose desired users do not include its user, or in the deletion of its
\* task.
C20_RowRemovalCauses ==
    [][\A r \in rows :
          (\A q \in rows' : q.id # r.id) =>
             /\ last = NoOp
             /\ \/ /\ last'.op = "reconcile"
                   /\ last'.ok
                   /\ r.task = last'.task
                   /\ r.user \notin Range(last'.ids)
                \/ /\ last'.op = "delete_task"
                   /\ r.task = last'.task
      ]_vars

C17_UnauthenticatedRefused ==
    [][(last = NoOp /\ last' # NoOp /\ ~auth) =>
        /\ ~last'.ok
        /\ last'.err = <<"unauthorized">>
        /\ last'.ret = << >>
        /\ <<users, types, tasks, rows, nextId, clock>>'
              = <<users, types, tasks, rows, nextId, clock>>
       ]_vars

C17_Witness ==
    /\ ~auth
    /\ last.op = "reconcile"
    /\ last.err = <<"unauthorized">>
    /\ rows # {}
    /\ StoredTypes(types) # {}
    /\ \E t \in StoredTasks(tasks) : tasks[t].status = "completed"

\* C21: a reconcile with a non-empty list is rejected only when one of its ids
\* is the id of no user (so a list of stored users' ids is accepted, repeated
\* ids included), and a rejected one reports a non-empty list of missing ids.
C21_RejectedOnlyForUnknown ==
    [][(ReconcileStep /\ last'.ids # << >> /\ ~last'.ok) =>
        /\ ~(Range(last'.ids) \subseteq users)
        /\ last'.err # << >>
       ]_vars

\* C23: when two reconciles of the same task have both ended successfully (and
\* no user was deleted), the assignees of the task are the desired users of
\* one of the two requests.
C23_ReconcilesSerializable ==
    (/\ \A p \in Procs : req[p].pc = "done" /\ req[p].res = "ok"
     /\ req[1].task = req[2].task
     /\ users = UserIds)
    => \E p \in Procs : Assignees(rows, req[p].task) = Range(req[p].ids)

\* C22: every stored task with status 'completed' has a completed_at that is
\* not null.
C22_CompletedHasTimestamp ==
    \A t \in StoredTasks(tasks) :
        tasks[t].status = "completed" => tasks[t].completed_at # NULL

\* C25: when a complete and an update of the name only, both on the same task,
\* have finished, the stored task is completed and has its completed_at.
C25_CompletionNotLost ==
    \A p, q \in Procs :
        (/\ call[p].pc = "done" /\ call[p].op = "complete"
         /\ call[q].pc = "done" /\ call[q].op = "rename"
         /\ call[p].task = call[q].task)
        => /\ tasks[call[p].task].status = "completed"
           /\ tasks[call[p].task].completed_at # NULL

\* C24: a save whose receiver takes the completion branch ends: the receiver
\* takes that branch once for the save (the nested save does not take it), no
\* save is more than two frames deep or runs out of frames, every save that
\* was started returns, and when the save that took the branch returns the
\* stored task is completed with its completed_at set.
C24_SaveTerminates ==
    /\ [](\A p \in Procs : /\ call[p].depth <= 2
                           /\ call[p].nested <= 1
                           /\ call[p].pc # "overflow")
    /\ [][\A p \in Procs :
            (call[p].pc = "write" /\ call'[p].pc = "done" /\ call[p].nested = 1)
            => /\ tasks'[call[p].task].status = "completed"
               /\ tasks'[call[p].task].completed_at # NULL]_vars
    /\ \A p \in Procs : (call[p].pc = "hook") ~> (call[p].pc = "done")

C24_Witness ==
    \E p \in Procs :
        /\ call[p].pc = "done"
        /\ call[p].op = "save"
        /\ call[p].nested = 1
        /\ tasks[call[p].task].status = "completed"
        /\ tasks[call[p].task].completed_at # NULL

====
